---- MODULE Spec2Model ----
(***************************************************************************)
(* hibp-checker: the concurrent matching engine of internal/hibp/checker.go *)
(* (Checker, ResultWriter), the range client's outcome (client.go) and the  *)
(* wiring of the check command (cmd/check.go).                              *)
(*                                                                          *)
(* Strings are sequences of one-character strings, so that ToUpper,         *)
(* TrimSpace, Split, SplitN, HasSuffix and hash[:5] are computed as the     *)
(* code computes them.                                                      *)
(***************************************************************************)
EXTENDS Integers, Sequences, FiniteSets, TLC

\* ------------------------------------------------------------------------
\* Bounds of the model
\* ------------------------------------------------------------------------
\* longest input file, in lines
MaxLines == 2
\* largest value of the --limit flag
MaxLimit == 1
\* largest value of the --workers flag
MaxWorkers == 2
\* size of the bufio.Writer buffer wrapped around the output file, in bytes
BufSize == 4

\* ------------------------------------------------------------------------
\* Program constants
\* ------------------------------------------------------------------------
\* hash[:5], len(hash) < 5
PrefixLen == 5

\* ------------------------------------------------------------------------
\* strings
\* ------------------------------------------------------------------------
\* unicode.ToUpper on the characters of the model's alphabet
ToUpperChar(ch) ==
    CASE ch = "a" -> "A"
      [] ch = "b" -> "B"
      [] ch = "c" -> "C"
      [] ch = "d" -> "D"
      [] ch = "e" -> "E"
      [] ch = "f" -> "F"
      [] ch = "l" -> "L"
      [] ch = "m" -> "M"
      [] ch = "o" -> "O"
      [] ch = "z" -> "Z"
      [] OTHER -> ch

\* strings.ToUpper
ToUpper(s) == [i \in 1..Len(s) |-> ToUpperChar(s[i])]

\* unicode.IsSpace on the characters of the model's alphabet
IsSpace(ch) == ch \in {" ", "\t", "\n", "\r"}

RECURSIVE TrimLeft(_)
TrimLeft(s) == IF s # <<>> /\ IsSpace(Head(s)) THEN TrimLeft(Tail(s)) ELSE s

RECURSIVE TrimRight(_)
TrimRight(s) ==
    IF s # <<>> /\ IsSpace(s[Len(s)]) THEN TrimRight(SubSeq(s, 1, Len(s) - 1)) ELSE s

\* strings.TrimSpace
TrimSpace(s) == TrimRight(TrimLeft(s))

\* strings.HasSuffix(s, suffix) for a one-character suffix
HasSuffix(s, ch) == s # <<>> /\ s[Len(s)] = ch

\* strings.Index(s, ch) + 1: position of the first ch in s, 0 when absent
IndexOf(s, ch) ==
    IF \E i \in 1..Len(s) : s[i] = ch
    THEN CHOOSE i \in 1..Len(s) : s[i] = ch /\ \A j \in 1..(i - 1) : s[j] # ch
    ELSE 0

\* strings.Split(s, sep) for a one-character separator
RECURSIVE Split(_, _)
Split(s, sep) ==
    LET i == IndexOf(s, sep)
    IN  IF i = 0 THEN <<s>>
        ELSE <<SubSeq(s, 1, i - 1)>> \o Split(SubSeq(s, i + 1, Len(s)), sep)

\* strings.SplitN(s, sep, 2) for a one-character separator
SplitN2(s, sep) ==
    LET i == IndexOf(s, sep)
    IN  IF i = 0 THEN <<s>>
        ELSE <<SubSeq(s, 1, i - 1), SubSeq(s, i + 1, Len(s))>>

\* ------------------------------------------------------------------------
\* inputs
\* ------------------------------------------------------------------------
\* type User struct { Account, Hash string }
User(account, hash) == [Account |-> account, Hash |-> hash]

\* the export the input files of the concurrent runs are taken from: an account
\* listed twice under one hash (in lower case), a second account sharing that
\* hash, a second hash under the same prefix, the first account under a second
\* prefix
MasterFile ==
    << <<"a", "l", ":", "a", "a", "a", "a", "a", "b">>,
       <<"a", "l", ":", "a", "a", "a", "a", "a", "b">>,
       <<"b", "o", ":", "A", "A", "A", "A", "A", "B">>,
       <<"b", "o", ":", "A", "A", "A", "A", "A", "C">>,
       <<"a", "l", ":", "B", "B", "B", "B", "B", "B">> >>

\* the lines of MasterFile at the positions in S, in order
RECURSIVE ExcerptFrom(_, _)
ExcerptFrom(i, S) ==
    IF i > Len(MasterFile) THEN <<>>
    ELSE (IF i \in S THEN <<MasterFile[i]>> ELSE <<>>) \o ExcerptFrom(i + 1, S)

\* the input files of the concurrent runs: at most MaxLines lines of MasterFile
Excerpts ==
    { ExcerptFrom(1, S) :
        S \in { T \in SUBSET (1..Len(MasterFile)) : Cardinality(T) <= MaxLines } }

\* the lines of MasterFile
LinePool == { MasterFile[i] : i \in 1..Len(MasterFile) }

\* further lines of the input file in the one-worker runs: a machine account, a
\* hash of five characters, a hash of four characters, an empty hash, a blank
\* hash, a line without delimiter, a blank line
NoisePool ==
    { <<"m", "$", ":", "B", "B", "B", "B", "B", "B">>,
      <<"a", "l", ":", "a", "a", "a", "a", "a">>,
      <<"b", "o", ":", "a", "a", "a", "a">>,
      <<"b", "o", ":">>,
      <<"a", "l", ":", " ">>,
      <<"j", "u", "n", "k">>,
      <<>> }

\* the input files of the one-worker runs: at most MaxLines lines of a pool
Files(pool) == UNION { [1..n -> pool] : n \in 0..MaxLines }

\* the bodies the range API may answer with ("SUFFIX:COUNT\r\n" per line): one with
\* a line without a colon, a lower-case suffix and a trailing blank line, one with
\* another suffix and no line end
Bodies ==
    { <<"z", "z", "\r", "\n", "b", ":", "1", "\r", "\n">>,
      <<"C", ":", "2">> }

\* (string, error) of Client.QueryRangeRaw: the body, or "" and an error
QueryRangeRaw ==
    { [ok |-> TRUE, body |-> b] : b \in Bodies } \cup { [ok |-> FALSE, body |-> <<>>] }

\* ------------------------------------------------------------------------
\* Checker.loadUsers
\* ------------------------------------------------------------------------
\* default of the --delimiter flag
Delimiter == ":"

\* the scanner loop from the given line on: users collected so far in us
RECURSIVE LoadFrom(_, _, _, _, _)
LoadFrom(lines, firstLine, us, skip, lim) ==
    IF lines = <<>> THEN us
    ELSE LET line == TrimSpace(Head(lines))
             parts == SplitN2(line, Delimiter)
             more == Append(us, User(parts[1], parts[2]))
         IN  IF line = <<>> THEN LoadFrom(Tail(lines), firstLine, us, skip, lim)
             ELSE IF firstLine /\ skip THEN LoadFrom(Tail(lines), FALSE, us, skip, lim)
             ELSE IF Len(parts) # 2 THEN LoadFrom(Tail(lines), FALSE, us, skip, lim)
             ELSE IF lim > 0 /\ Len(more) >= lim THEN more
             ELSE LoadFrom(Tail(lines), FALSE, more, skip, lim)

\* loadUsers(filename, delimiter, skipHeader, limit) on a readable file
loadUsers(lines, skip, lim) == LoadFrom(lines, TRUE, <<>>, skip, lim)

\* ------------------------------------------------------------------------
\* Checker.buildHashIndex
\* ------------------------------------------------------------------------
\* the map, the seen set and the prefixes slice before the loop
IndexEmpty == [userHashes |-> <<>>, seen |-> {}, prefixes |-> <<>>]

\* skip conditions that forget the machine accounts
SkippedButMachine(user) ==
    \/ TrimSpace(user.Hash) = <<>>
    \/ Len(ToUpper(user.Hash)) < PrefixLen

\* the skip conditions of the loop body
Skipped(user) ==
    \/ HasSuffix(user.Account, "$")
    \/ TrimSpace(user.Hash) = <<>>
    \/ Len(ToUpper(user.Hash)) < PrefixLen

\* an assignment that replaces the accounts already stored under the hash
AppendAccountReplacing(userHashes, hash, account) ==
    (hash :> <<account>>) @@ userHashes

\* c.userHashes[hash] = append(c.userHashes[hash], account)
AppendAccount(userHashes, hash, account) ==
    IF hash \in DOMAIN userHashes
    THEN [userHashes EXCEPT ![hash] = Append(@, account)]
    ELSE userHashes @@ (hash :> <<account>>)

\* an iteration that appends the prefix without looking at seen
IndexStepNoSeen(st, user) ==
    IF Skipped(user) THEN st
    ELSE LET hash == ToUpper(user.Hash)
             prefix == SubSeq(hash, 1, PrefixLen)
         IN  [userHashes |-> AppendAccount(st.userHashes, hash, user.Account),
              seen |-> st.seen \cup {prefix},
              prefixes |-> Append(st.prefixes, prefix)]

\* one iteration of the loop over users
IndexStep(st, user) ==
    IF Skipped(user) THEN st
    ELSE LET hash == ToUpper(user.Hash)
             prefix == SubSeq(hash, 1, PrefixLen)
         IN  [userHashes |-> AppendAccount(st.userHashes, hash, user.Account),
              seen |-> st.seen \cup {prefix},
              prefixes |-> IF prefix \in st.seen THEN st.prefixes
                           ELSE Append(st.prefixes, prefix)]

RECURSIVE IndexFrom(_, _)
IndexFrom(st, us) ==
    IF us = <<>> THEN st ELSE IndexFrom(IndexStep(st, Head(us)), Tail(us))

\* buildHashIndex(users): the userHashes map it leaves and the prefixes it returns
buildHashIndex(us) == IndexFrom(IndexEmpty, us)

\* ------------------------------------------------------------------------
\* Checker.checkPrefixMatches: the lines of a response
\* ------------------------------------------------------------------------
\* a line the loop does not skip: non-blank after TrimSpace, two parts on ":"
WellFormed(raw) ==
    LET line == TrimSpace(raw)
    IN  line # <<>> /\ Len(SplitN2(line, ":")) = 2

\* the lines left from the first one the loop does not skip
RECURSIVE SkipLines(_)
SkipLines(ls) ==
    IF ls = <<>> \/ WellFormed(Head(ls)) THEN ls ELSE SkipLines(Tail(ls))

\* the full hash without the upper-casing of the suffix
FullHashAsSent(prefix, raw) == prefix \o SplitN2(TrimSpace(raw), ":")[1]

\* fullHash := prefix + strings.ToUpper(parts[0])
FullHash(prefix, raw) == prefix \o ToUpper(SplitN2(TrimSpace(raw), ":")[1])

\* ------------------------------------------------------------------------
\* bufio.Writer over the output file, and ResultWriter.Write
\* ------------------------------------------------------------------------
\* bufio.Writer.Flush; diskOk: whether the write to the file succeeds
Flush(st, diskOk) ==
    IF st.err \/ st.buf = <<>> THEN st
    ELSE IF diskOk THEN [st EXCEPT !.file = @ \o st.buf, !.buf = <<>>]
    ELSE [st EXCEPT !.err = TRUE]

\* bufio.Writer.Write(p): fills the buffer, flushing it when p does not fit
RECURSIVE BufWrite(_, _, _)
BufWrite(st, p, diskOk) ==
    IF Len(p) > BufSize - Len(st.buf) /\ ~st.err
    THEN IF st.buf = <<>>
         THEN IF diskOk THEN BufWrite([st EXCEPT !.file = @ \o p], <<>>, diskOk)
              ELSE [st EXCEPT !.err = TRUE]
         ELSE LET n == BufSize - Len(st.buf)
              IN  BufWrite(Flush([st EXCEPT !.buf = @ \o SubSeq(p, 1, n)], diskOk),
                           SubSeq(p, n + 1, Len(p)), diskOk)
    ELSE IF st.err THEN st
    ELSE [st EXCEPT !.buf = @ \o p]

\* a print that does not end the line
LineUnterminated(account) == account

\* fmt.Fprintln(rw.writer, account): the bytes of one line
Line(account) == account \o <<"\n">>

VARIABLES
    \* ---- cmd/check.go, CheckFile ----
    source,        \* the input file: readable or not, and its lines
    skipHeader,    \* the --skip-header flag
    limit,         \* the --limit flag
    workers,       \* the workers argument, clamped by queryPrefixesConcurrently
    pc,            \* position of the main goroutine
    users,         \* users returned by loadUsers
    exposedCount,  \* (int, error) returned by CheckFile
    retErr,
    \* ---- Checker ----
    userHashes,    \* hash -> list of accounts
    exposedUsers,  \* account -> true
    cacheMu,       \* holder of the write lock of cacheMu, 0 when free
    \* ---- queryPrefixesConcurrently ----
    prefixes,      \* prefixesToQuery
    sent,          \* number of prefixes sent into jobs
    jobs,          \* the buffered channel
    closed,        \* close(jobs) done
    wg,            \* sync.WaitGroup counter
    completed,     \* atomic.Int64
    wpc,           \* position of each worker goroutine
    wprefix,       \* job.prefix of each worker
    wlines,        \* lines of the response each worker still has to process
    waccounts,     \* accounts of the matched hash each worker still has to visit
    wcurrent,      \* value completed.Add(1) returned to each worker
    \* ---- ResultWriter and its destination ----
    enabled,       \* rw.enabled
    count,         \* rw.count
    buf,           \* bytes held by the bufio.Writer
    bufErr,        \* sticky error of the bufio.Writer
    file,          \* bytes in the output file
    \* ---- observable events ----
    queried,       \* prefixes passed to QueryRangeRaw, in call order
    responses,     \* prefix -> what QueryRangeRaw returned for it
    emitted,       \* accounts printed as [EXPOSED], in order
    sinkCalls,     \* resultWriter.Write calls: account and whether it returned nil
    errLog,        \* [ERROR] lines printed
    progress       \* completed counts printed by printQueryProgress, in order

vars == <<source, skipHeader, limit, workers, pc, users, exposedCount, retErr,
          userHashes, exposedUsers, cacheMu, prefixes, sent, jobs, closed, wg, completed,
          wpc, wprefix, wlines, waccounts, wcurrent, enabled, count, buf, bufErr, file,
          queried, responses, emitted, sinkCalls, errLog, progress>>

mainVars == <<source, skipHeader, limit, workers, pc, users, exposedCount, retErr>>
indexVars == <<userHashes, prefixes>>
chanVars == <<sent, jobs, closed>>
sinkVars == <<enabled, count, buf, bufErr, file>>
logVars == <<queried, responses, emitted, sinkCalls, errLog, progress>>

\* what the input file may be: unreadable, or readable with the lines of a file
Sources(files) ==
    { [ok |-> TRUE, lines |-> f] : f \in files } \cup { [ok |-> FALSE, lines |-> <<>>] }

\* the Checker, the ResultWriter and the output file as constructed
Constructed ==
    /\ pc = "load"
    /\ users = <<>>
    /\ exposedCount = 0
    /\ retErr = FALSE
    /\ userHashes = <<>>
    /\ exposedUsers = <<>>
    /\ cacheMu = 0
    /\ prefixes = <<>>
    /\ sent = 0
    /\ jobs = <<>>
    /\ closed = FALSE
    /\ wg = 0
    /\ completed = 0
    /\ wpc = <<>>
    /\ wprefix = <<>>
    /\ wlines = <<>>
    /\ waccounts = <<>>
    /\ wcurrent = <<>>
    /\ count = 0
    /\ buf = <<>>
    /\ bufErr = FALSE
    /\ file = <<>>
    /\ queried = <<>>
    /\ responses = <<>>
    /\ emitted = <<>>
    /\ sinkCalls = <<>>
    /\ errLog = <<>>
    /\ progress = <<>>

\* RunE up to the call of CheckFile, with the default flags but for --workers
\* and --output
Init ==
    /\ source \in Sources(Excerpts)
    /\ skipHeader = FALSE
    /\ limit = 0
    /\ workers \in 0..MaxWorkers
    /\ enabled \in BOOLEAN
    /\ Constructed

\* runs with one worker and an output file, over all the lines and with the
\* --skip-header and --limit flags
InitOneWorker ==
    /\ source \in Sources(Files(LinePool \cup NoisePool))
    /\ skipHeader \in BOOLEAN
    /\ limit \in 0..MaxLimit
    /\ workers = 1
    /\ enabled = TRUE
    /\ Constructed

\* ------------------------------------------------------------------------
\* CheckFile, main goroutine
\* ------------------------------------------------------------------------
\* a CheckFile that goes on with no users when loadUsers failed
LoadUsersIgnoringError ==
    /\ pc = "load"
    /\ users' = IF source.ok THEN loadUsers(source.lines, skipHeader, limit) ELSE <<>>
    /\ pc' = "index"
    /\ UNCHANGED <<source, skipHeader, limit, workers, exposedCount, retErr, userHashes,
                   exposedUsers, cacheMu, prefixes, chanVars, wg, completed, wpc, wprefix,
                   wlines, waccounts, wcurrent, sinkVars, logVars>>

\* users, err := c.loadUsers(...); if err != nil { return 0, err }
LoadUsers ==
    /\ pc = "load"
    /\ IF source.ok
       THEN /\ users' = loadUsers(source.lines, skipHeader, limit)
            /\ pc' = "index"
            /\ UNCHANGED <<exposedCount, retErr>>
       ELSE /\ exposedCount' = 0
            /\ retErr' = TRUE
            /\ pc' = "returned"
            /\ UNCHANGED users
    /\ UNCHANGED <<source, skipHeader, limit, workers, userHashes, exposedUsers, cacheMu,
                   prefixes, chanVars, wg, completed, wpc, wprefix, wlines, waccounts,
                   wcurrent, sinkVars, logVars>>

\* prefixesToQuery := c.buildHashIndex(users); if len(prefixesToQuery) > 0 { ... }
BuildHashIndex ==
    /\ pc = "index"
    /\ LET built == buildHashIndex(users)
       IN  /\ userHashes' = built.userHashes
           /\ prefixes' = built.prefixes
           /\ pc' = IF Len(built.prefixes) > 0 THEN "pool" ELSE "count"
    /\ UNCHANGED <<source, skipHeader, limit, workers, users, exposedCount, retErr,
                   exposedUsers, cacheMu, chanVars, wg, completed, wpc, wprefix, wlines,
                   waccounts, wcurrent, sinkVars, logVars>>

\* a pool that takes the worker count as given
ClampWorkersNot(n) == n

\* if workers < 1 { workers = 1 }
ClampWorkers(n) == IF n < 1 THEN 1 ELSE n

\* queryPrefixesConcurrently up to the send loop: clamp, make(chan, len(prefixes)),
\* wg.Add(1) and go func() for each worker
StartWorkers ==
    /\ pc = "pool"
    /\ LET n == ClampWorkers(workers)
       IN  /\ workers' = n
           /\ wg' = n
           /\ wpc' = [w \in 1..n |-> "recv"]
           /\ wprefix' = [w \in 1..n |-> <<>>]
           /\ wlines' = [w \in 1..n |-> <<>>]
           /\ waccounts' = [w \in 1..n |-> <<>>]
           /\ wcurrent' = [w \in 1..n |-> 0]
    /\ completed' = 0
    /\ jobs' = <<>>
    /\ sent' = 0
    /\ closed' = FALSE
    /\ pc' = "send"
    /\ UNCHANGED <<source, skipHeader, limit, users, exposedCount, retErr, userHashes,
                   exposedUsers, cacheMu, prefixes, sinkVars, logVars>>

\* jobs <- prefixJob{prefix: prefix}; the channel holds len(prefixes) jobs
SendJob ==
    /\ pc = "send"
    /\ sent < Len(prefixes)
    /\ Len(jobs) < Len(prefixes)
    /\ jobs' = Append(jobs, prefixes[sent + 1])
    /\ sent' = sent + 1
    /\ UNCHANGED <<mainVars, userHashes, exposedUsers, cacheMu, prefixes, closed, wg,
                   completed, wpc, wprefix, wlines, waccounts, wcurrent, sinkVars,
                   logVars>>

\* a pool that goes on to wait without closing the channel
CloseJobsNotClosing ==
    /\ pc = "send"
    /\ sent = Len(prefixes)
    /\ pc' = "wait"
    /\ UNCHANGED <<source, skipHeader, limit, workers, users, exposedCount, retErr,
                   userHashes, exposedUsers, cacheMu, prefixes, sent, jobs, closed, wg,
                   completed, wpc, wprefix, wlines, waccounts, wcurrent, sinkVars, logVars>>

\* close(jobs)
CloseJobs ==
    /\ pc = "send"
    /\ sent = Len(prefixes)
    /\ closed' = TRUE
    /\ pc' = "wait"
    /\ UNCHANGED <<source, skipHeader, limit, workers, users, exposedCount, retErr,
                   userHashes, exposedUsers, cacheMu, prefixes, sent, jobs, wg, completed,
                   wpc, wprefix, wlines, waccounts, wcurrent, sinkVars, logVars>>

\* a Wait that does not wait for the workers
WaitDoneEarly(n) == TRUE

\* wg.Wait() returns when the counter is zero
WaitDone(n) == n = 0

\* wg.Wait(), then queryPrefixesConcurrently returns
WaitWorkers ==
    /\ pc = "wait"
    /\ WaitDone(wg)
    /\ pc' = "count"
    /\ UNCHANGED <<source, skipHeader, limit, workers, users, exposedCount, retErr,
                   userHashes, exposedUsers, cacheMu, prefixes, chanVars, wg, completed,
                   wpc, wprefix, wlines, waccounts, wcurrent, sinkVars, logVars>>

\* a lock that excludes nobody
LockFreeAlways(mu) == TRUE

\* cacheMu.RLock() and cacheMu.Lock() proceed when no goroutine holds the write lock
LockFree(mu) == mu = 0

\* c.exposedUsers[account]
IsExposed(exposed, account) == account \in DOMAIN exposed /\ exposed[account]

\* RLock; exposedCount := len(c.exposedUsers); RUnlock; return exposedCount, nil
CountExposed ==
    /\ pc = "count"
    /\ LockFree(cacheMu)
    /\ exposedCount' = Cardinality(DOMAIN exposedUsers)
    /\ retErr' = FALSE
    /\ pc' = "returned"
    /\ UNCHANGED <<source, skipHeader, limit, workers, users, userHashes, exposedUsers,
                   cacheMu, prefixes, chanVars, wg, completed, wpc, wprefix, wlines,
                   waccounts, wcurrent, sinkVars, logVars>>

\* RunE returns: the deferred bufferedWriter.Flush() and file.Close() run
RunEReturn ==
    /\ pc = "returned"
    /\ \E diskOk \in BOOLEAN :
          LET st == Flush([buf |-> buf, err |-> bufErr, file |-> file], diskOk)
          IN  /\ buf' = st.buf
              /\ bufErr' = st.err
              /\ file' = st.file
    /\ pc' = "exit"
    /\ UNCHANGED <<source, skipHeader, limit, workers, users, exposedCount, retErr,
                   userHashes, exposedUsers, cacheMu, prefixes, chanVars, wg, completed,
                   wpc, wprefix, wlines, waccounts, wcurrent, enabled, count, logVars>>

\* ------------------------------------------------------------------------
\* worker goroutines
\* ------------------------------------------------------------------------
Workers == DOMAIN wpc

\* a receive that takes the job sent last
RecvJobLast(w) ==
    /\ wpc[w] = "recv"
    /\ jobs # <<>>
    /\ wprefix' = [wprefix EXCEPT ![w] = jobs[Len(jobs)]]
    /\ jobs' = SubSeq(jobs, 1, Len(jobs) - 1)
    /\ wpc' = [wpc EXCEPT ![w] = "query"]
    /\ UNCHANGED <<mainVars, indexVars, exposedUsers, cacheMu, sent, closed, wg, completed,
                   wlines, waccounts, wcurrent, sinkVars, logVars>>

\* for job := range jobs: a job is received
RecvJob(w) ==
    /\ wpc[w] = "recv"
    /\ jobs # <<>>
    /\ wprefix' = [wprefix EXCEPT ![w] = Head(jobs)]
    /\ jobs' = Tail(jobs)
    /\ wpc' = [wpc EXCEPT ![w] = "query"]
    /\ UNCHANGED <<mainVars, indexVars, exposedUsers, cacheMu, sent, closed, wg, completed,
                   wlines, waccounts, wcurrent, sinkVars, logVars>>

\* for job := range jobs: the channel is closed and drained; defer wg.Done()
WorkerExit(w) ==
    /\ wpc[w] = "recv"
    /\ jobs = <<>>
    /\ closed
    /\ wpc' = [wpc EXCEPT ![w] = "done"]
    /\ wg' = wg - 1
    /\ UNCHANGED <<mainVars, indexVars, exposedUsers, cacheMu, chanVars, completed,
                   wprefix, wlines, waccounts, wcurrent, sinkVars, logVars>>

\* position after a line is done: the next line to look up, or the end of the response
AfterLine(ls) == IF SkipLines(ls) = <<>> THEN "add" ELSE "lookup"

\* resp, err := c.client.QueryRangeRaw(prefix) returned a body; split into lines
QueryOk(w) ==
    /\ wpc[w] = "query"
    /\ \E r \in QueryRangeRaw :
          /\ r.ok
          /\ responses' = (wprefix[w] :> r) @@ responses
          /\ LET ls == SkipLines(Split(r.body, "\n"))
             IN  /\ wlines' = [wlines EXCEPT ![w] = ls]
                 /\ wpc' = [wpc EXCEPT ![w] = AfterLine(ls)]
    /\ queried' = Append(queried, wprefix[w])
    /\ UNCHANGED <<mainVars, indexVars, exposedUsers, cacheMu, chanVars, wg, completed,
                   wprefix, waccounts, wcurrent, sinkVars, emitted, sinkCalls, errLog,
                   progress>>

\* a failed query that is tried again
QueryFailRetrying(w) ==
    /\ wpc[w] = "query"
    /\ \E r \in QueryRangeRaw :
          /\ ~r.ok
          /\ responses' = (wprefix[w] :> r) @@ responses
    /\ queried' = Append(queried, wprefix[w])
    /\ errLog' = Append(errLog, [kind |-> "query", what |-> wprefix[w]])
    /\ Len(queried) < 2 * Len(prefixes)
    /\ UNCHANGED <<mainVars, indexVars, exposedUsers, cacheMu, chanVars, wg, completed,
                   wpc, wprefix, wlines, waccounts, wcurrent, sinkVars, emitted,
                   sinkCalls, progress>>

\* resp, err := c.client.QueryRangeRaw(prefix) failed: [ERROR] is printed, return
QueryFail(w) ==
    /\ wpc[w] = "query"
    /\ \E r \in QueryRangeRaw :
          /\ ~r.ok
          /\ responses' = (wprefix[w] :> r) @@ responses
    /\ queried' = Append(queried, wprefix[w])
    /\ errLog' = Append(errLog, [kind |-> "query", what |-> wprefix[w]])
    /\ wpc' = [wpc EXCEPT ![w] = "add"]
    /\ UNCHANGED <<mainVars, indexVars, exposedUsers, cacheMu, chanVars, wg, completed,
                   wprefix, wlines, waccounts, wcurrent, sinkVars, emitted, sinkCalls,
                   progress>>

\* a lookup that deletes the entry it has found
LookupDeleting(w) ==
    /\ wpc[w] = "lookup"
    /\ LockFree(cacheMu)
    /\ LET fullHash == FullHash(wprefix[w], Head(wlines[w]))
       IN  IF fullHash \in DOMAIN userHashes
           THEN /\ waccounts' = [waccounts EXCEPT ![w] = userHashes[fullHash]]
                /\ userHashes' = [h \in DOMAIN userHashes \ {fullHash} |-> userHashes[h]]
                /\ wpc' = [wpc EXCEPT ![w] = "lock"]
                /\ UNCHANGED wlines
           ELSE /\ wlines' = [wlines EXCEPT ![w] = SkipLines(Tail(wlines[w]))]
                /\ wpc' = [wpc EXCEPT ![w] = AfterLine(Tail(wlines[w]))]
                /\ UNCHANGED <<waccounts, userHashes>>
    /\ UNCHANGED <<mainVars, prefixes, exposedUsers, cacheMu, chanVars, wg, completed,
                   wprefix, wcurrent, sinkVars, logVars>>

\* a lookup that passes over the line when the lock is held
LookupUnlessLocked(w) ==
    /\ wpc[w] = "lookup"
    /\ LET fullHash == FullHash(wprefix[w], Head(wlines[w]))
       IN  IF LockFree(cacheMu) /\ fullHash \in DOMAIN userHashes
           THEN /\ waccounts' = [waccounts EXCEPT ![w] = userHashes[fullHash]]
                /\ wpc' = [wpc EXCEPT ![w] = "lock"]
                /\ UNCHANGED wlines
           ELSE /\ wlines' = [wlines EXCEPT ![w] = SkipLines(Tail(wlines[w]))]
                /\ wpc' = [wpc EXCEPT ![w] = AfterLine(Tail(wlines[w]))]
                /\ UNCHANGED waccounts
    /\ UNCHANGED <<mainVars, indexVars, exposedUsers, cacheMu, chanVars, wg, completed,
                   wprefix, wcurrent, sinkVars, logVars>>

\* RLock; accounts, exists := c.userHashes[fullHash]; RUnlock
Lookup(w) ==
    /\ wpc[w] = "lookup"
    /\ LockFree(cacheMu)
    /\ LET fullHash == FullHash(wprefix[w], Head(wlines[w]))
       IN  IF fullHash \in DOMAIN userHashes
           THEN /\ waccounts' = [waccounts EXCEPT ![w] = userHashes[fullHash]]
                /\ wpc' = [wpc EXCEPT ![w] = "lock"]
                /\ UNCHANGED wlines
           ELSE /\ wlines' = [wlines EXCEPT ![w] = SkipLines(Tail(wlines[w]))]
                /\ wpc' = [wpc EXCEPT ![w] = AfterLine(Tail(wlines[w]))]
                /\ UNCHANGED waccounts
    /\ UNCHANGED <<mainVars, indexVars, exposedUsers, cacheMu, chanVars, wg, completed,
                   wprefix, wcurrent, sinkVars, logVars>>

\* position inside the write lock: the next account to check, or the unlock
AfterAccount(as) == IF as = <<>> THEN "unlock" ELSE "check"

\* c.cacheMu.Lock()
Lock(w) ==
    /\ wpc[w] = "lock"
    /\ LockFree(cacheMu)
    /\ cacheMu' = w
    /\ wpc' = [wpc EXCEPT ![w] = AfterAccount(waccounts[w])]
    /\ UNCHANGED <<mainVars, indexVars, exposedUsers, chanVars, wg, completed, wprefix,
                   wlines, waccounts, wcurrent, sinkVars, logVars>>

\* if !c.exposedUsers[account]
Check(w) ==
    /\ wpc[w] = "check"
    /\ IF IsExposed(exposedUsers, Head(waccounts[w]))
       THEN /\ waccounts' = [waccounts EXCEPT ![w] = Tail(@)]
            /\ wpc' = [wpc EXCEPT ![w] = AfterAccount(Tail(waccounts[w]))]
       ELSE /\ wpc' = [wpc EXCEPT ![w] = "mark"]
            /\ UNCHANGED waccounts
    /\ UNCHANGED <<mainVars, indexVars, exposedUsers, cacheMu, chanVars, wg, completed,
                   wprefix, wlines, wcurrent, sinkVars, logVars>>

\* a Write that counts the call whether or not Fprintln failed
WriteCountingFailures(account, diskOk) ==
    LET st == [buf |-> buf, err |-> bufErr, file |-> file]
    IN  IF ~enabled THEN [st |-> st, count |-> count, err |-> FALSE]
        ELSE LET st2 == BufWrite(st, Line(account), diskOk)
             IN  [st |-> st2, count |-> count + 1, err |-> st2.err]

\* a Write that never counts
WriteNotCounting(account, diskOk) ==
    LET st == [buf |-> buf, err |-> bufErr, file |-> file]
    IN  IF ~enabled THEN [st |-> st, count |-> count, err |-> FALSE]
        ELSE LET st2 == BufWrite(st, Line(account), diskOk)
             IN  [st |-> st2, count |-> count, err |-> st2.err]

\* ResultWriter.Write(account): nil at once when disabled; else Fprintln into the
\* buffered writer and rw.count++ when it returned no error
Write(account, diskOk) ==
    LET st == [buf |-> buf, err |-> bufErr, file |-> file]
    IN  IF ~enabled THEN [st |-> st, count |-> count, err |-> FALSE]
        ELSE LET st2 == BufWrite(st, Line(account), diskOk)
             IN  [st |-> st2, count |-> IF st2.err THEN count ELSE count + 1,
                  err |-> st2.err]

\* a marking that replaces the map by one with the new account only
MarkForgetting(w) ==
    /\ wpc[w] = "mark"
    /\ LET account == Head(waccounts[w])
       IN  /\ exposedUsers' = (account :> TRUE)
           /\ emitted' = Append(emitted, account)
           /\ \E diskOk \in BOOLEAN :
                 LET r == Write(account, diskOk)
                 IN  /\ buf' = r.st.buf
                     /\ bufErr' = r.st.err
                     /\ file' = r.st.file
                     /\ count' = r.count
                     /\ sinkCalls' = Append(sinkCalls, [account |-> account, ok |-> ~r.err])
                     /\ errLog' = IF r.err
                                  THEN Append(errLog, [kind |-> "write", what |-> account])
                                  ELSE errLog
    /\ waccounts' = [waccounts EXCEPT ![w] = Tail(@)]
    /\ wpc' = [wpc EXCEPT ![w] = AfterAccount(Tail(waccounts[w]))]
    /\ UNCHANGED <<mainVars, indexVars, cacheMu, chanVars, wg, completed, wprefix, wlines,
                   wcurrent, enabled, queried, responses, progress>>

\* c.exposedUsers[account] = true; [EXPOSED] is printed; resultWriter.Write(account),
\* [ERROR] is printed when it fails
Mark(w) ==
    /\ wpc[w] = "mark"
    /\ LET account == Head(waccounts[w])
       IN  /\ exposedUsers' = (account :> TRUE) @@ exposedUsers
           /\ emitted' = Append(emitted, account)
           /\ \E diskOk \in BOOLEAN :
                 LET r == Write(account, diskOk)
                 IN  /\ buf' = r.st.buf
                     /\ bufErr' = r.st.err
                     /\ file' = r.st.file
                     /\ count' = r.count
                     /\ sinkCalls' = Append(sinkCalls, [account |-> account, ok |-> ~r.err])
                     /\ errLog' = IF r.err
                                  THEN Append(errLog, [kind |-> "write", what |-> account])
                                  ELSE errLog
    /\ waccounts' = [waccounts EXCEPT ![w] = Tail(@)]
    /\ wpc' = [wpc EXCEPT ![w] = AfterAccount(Tail(waccounts[w]))]
    /\ UNCHANGED <<mainVars, indexVars, cacheMu, chanVars, wg, completed, wprefix, wlines,
                   wcurrent, enabled, queried, responses, progress>>

\* c.cacheMu.Unlock(), on to the next line
Unlock(w) ==
    /\ wpc[w] = "unlock"
    /\ cacheMu' = 0
    /\ wlines' = [wlines EXCEPT ![w] = SkipLines(Tail(wlines[w]))]
    /\ wpc' = [wpc EXCEPT ![w] = AfterLine(Tail(wlines[w]))]
    /\ UNCHANGED <<mainVars, indexVars, exposedUsers, chanVars, wg, completed, wprefix,
                   waccounts, wcurrent, sinkVars, logVars>>

\* current := completed.Add(1)
AddCompleted(w) ==
    /\ wpc[w] = "add"
    /\ completed' = completed + 1
    /\ wcurrent' = [wcurrent EXCEPT ![w] = completed + 1]
    /\ wpc' = [wpc EXCEPT ![w] = "print"]
    /\ UNCHANGED <<mainVars, indexVars, exposedUsers, cacheMu, chanVars, wg, wprefix,
                   wlines, waccounts, sinkVars, logVars>>

\* c.printQueryProgress(int(current), total, elapsed)
PrintProgress(w) ==
    /\ wpc[w] = "print"
    /\ progress' = Append(progress, wcurrent[w])
    /\ wpc' = [wpc EXCEPT ![w] = "recv"]
    /\ UNCHANGED <<mainVars, indexVars, exposedUsers, cacheMu, chanVars, wg, completed,
                   wprefix, wlines, waccounts, wcurrent, sinkVars, queried, responses,
                   emitted, sinkCalls, errLog>>

\* the steps of a worker: those of the loop over jobs, then those of
\* checkPrefixMatches
Worker(w) ==
    \/ RecvJob(w)
    \/ WorkerExit(w)
    \/ AddCompleted(w)
    \/ PrintProgress(w)
    \/ QueryFail(w)
    \/ QueryOk(w)
    \/ Lock(w)
    \/ Check(w)
    \/ Lookup(w)
    \/ Mark(w)
    \/ Unlock(w)

Next ==
    \/ LoadUsers
    \/ BuildHashIndex
    \/ StartWorkers
    \/ SendJob
    \/ CloseJobs
    \/ WaitWorkers
    \/ CountExposed
    \/ RunEReturn
    \/ \E w \in Workers : Worker(w)

Spec == Init /\ [][Next]_vars

SpecOneWorker == InitOneWorker /\ [][Next]_vars

\* the Go scheduler runs a goroutine that can take a step, and a range query returns
\* (the HTTP client has a timeout): some step that can be taken is taken in the end
\* the input files of the fair runs: the last lines of MasterFile, MaxLines at most
Endings ==
    { SubSeq(MasterFile, Len(MasterFile) - n + 1, Len(MasterFile)) : n \in 0..MaxLines }

\* runs with an output file and every worker count
InitFair ==
    /\ source \in Sources(Endings)
    /\ skipHeader = FALSE
    /\ limit = 0
    /\ workers \in 0..MaxWorkers
    /\ enabled = TRUE
    /\ Constructed

SpecFair == InitFair /\ [][Next]_vars /\ WF_vars(Next)

\* ------------------------------------------------------------------------
\* Properties
\* ------------------------------------------------------------------------
Range(seq) == { seq[i] : i \in 1..Len(seq) }

\* number of times x occurs in seq
Occurrences(seq, x) == Cardinality({ i \in 1..Len(seq) : seq[i] = x })

\* number of resultWriter.Write calls made for an account
SinkWrites(account) ==
    Cardinality({ i \in 1..Len(sinkCalls) : sinkCalls[i].account = account })

\* every account of the input
Accounts == { users[i].Account : i \in 1..Len(users) }

\* CheckFile has returned without error
Finished == pc \in {"returned", "exit"} /\ ~retErr

\* C1: in every state of every interleaving an account has at most one [EXPOSED]
\* notification and at most one Result Sink write, and exactly one of each once it
\* is marked exposed.
C1_ExposedOnce ==
    \A a \in Accounts :
        /\ Occurrences(emitted, a) <= 1
        /\ SinkWrites(a) <= 1
        /\ IsExposed(exposedUsers, a) => Occurrences(emitted, a) = 1 /\ SinkWrites(a) = 1
        /\ ~IsExposed(exposedUsers, a) => Occurrences(emitted, a) = 0 /\ SinkWrites(a) = 0

\* C1 witness: a worker waits for the write lock with an account that another
\* worker, holding the lock for a different prefix, has already emitted.
C1_Witness ==
    \E w1 \in Workers, w2 \in Workers :
        /\ w1 # w2
        /\ wpc[w1] = "lock"
        /\ cacheMu = w2
        /\ wprefix[w1] # wprefix[w2]
        /\ \E a \in Range(waccounts[w1]) :
              IsExposed(exposedUsers, a) /\ Occurrences(emitted, a) = 1

\* the complete lines of the output file
FileLines == LET ls == Split(file, "\n") IN Range(SubSeq(ls, 1, Len(ls) - 1))

\* C2: with an output file configured, every account whose Result Sink write
\* returned success is in the output file at every moment of the run.
C2_WrittenImmediately ==
    enabled =>
        \A i \in 1..Len(sinkCalls) : sinkCalls[i].ok => sinkCalls[i].account \in FileLines

\* C3: no prefix is ever queried twice, and once queryPrefixesConcurrently has
\* returned every prefix has been queried exactly once and every worker has left
\* its loop.
C3_PoolCompletes ==
    /\ \A i \in 1..Len(queried) : queried[i] \in Range(prefixes)
    /\ \A p \in Range(prefixes) : Occurrences(queried, p) <= 1
    /\ pc \in {"count", "returned", "exit"} /\ ~retErr =>
          /\ \A p \in Range(prefixes) : Occurrences(queried, p) = 1
          /\ \A w \in Workers : wpc[w] = "done"
          /\ jobs = <<>>

\* C3 witness: the pool has returned after two workers shared two prefixes.
C3_Witness ==
    /\ pc = "count"
    /\ Len(prefixes) = 2
    /\ workers = 2
    /\ Len(queried) = 2

\* the records buildHashIndex indexes
Indexed == { i \in 1..Len(users) : ~Skipped(users[i]) }

\* the record's hash is reported by a "suffix:count" line of the response to its prefix
Reported(u) ==
    LET hash == ToUpper(u.Hash)
        prefix == SubSeq(hash, 1, PrefixLen)
    IN  /\ prefix \in DOMAIN responses
        /\ responses[prefix].ok
        /\ \E raw \in Range(Split(responses[prefix].body, "\n")) :
              LET parts == SplitN2(TrimSpace(raw), ":")
              IN  Len(parts) = 2 /\ hash = prefix \o ToUpper(parts[1])

\* the accounts the responses expose
ExpectedExposed == { users[i].Account : i \in { j \in Indexed : Reported(users[j]) } }

AllQueriesOk == \A p \in DOMAIN responses : responses[p].ok

\* C4: when every range query succeeded, after CheckFile the exposed accounts are
\* exactly the accounts of indexed records whose normalized hash is prefix +
\* upper-cased suffix of a two-part line of the response to its prefix, and the
\* count returned is their number.
C4_ExactMatches ==
    Finished /\ AllQueriesOk =>
        /\ { a \in Accounts : IsExposed(exposedUsers, a) } = ExpectedExposed
        /\ DOMAIN exposedUsers = ExpectedExposed
        /\ exposedCount = Cardinality(ExpectedExposed)

\* C4 witness: two accounts share a hash, one of them listed in lower case, the
\* response names the suffix in lower case after a malformed line; a third hash
\* with the same prefix is absent from the response.
C4_Witness ==
    /\ Finished /\ AllQueriesOk
    /\ exposedCount = 2
    /\ \E i \in 1..Len(users), j \in 1..Len(users) :
          /\ users[i].Account # users[j].Account
          /\ users[i].Hash # users[j].Hash
          /\ ToUpper(users[i].Hash) = ToUpper(users[j].Hash)

\* CheckFile is past buildHashIndex
IndexBuilt == pc \notin {"load", "index"} /\ ~retErr

\* prefix of the normalized hash of a record
PrefixOf(u) == SubSeq(ToUpper(u.Hash), 1, PrefixLen)

\* the elements of a sequence in order of first occurrence
RECURSIVE FirstOccurrences(_)
FirstOccurrences(seq) ==
    IF seq = <<>> THEN <<>>
    ELSE LET before == FirstOccurrences(SubSeq(seq, 1, Len(seq) - 1))
             last == seq[Len(seq)]
         IN  IF last \in Range(before) THEN before ELSE Append(before, last)

\* the prefixes of the indexed records, in the order of the records
PrefixesOfRecords ==
    LET kept == SelectSeq(users, LAMBDA u : ~Skipped(u))
    IN  [i \in 1..Len(kept) |-> PrefixOf(kept[i])]

\* buildHashIndex has just returned, or the pool has
AtIndexResult == pc \in {"pool", "count", "returned", "exit"} /\ ~retErr

\* C5: the prefixes buildHashIndex returns, and CheckFile still holds after the
\* pool, are the prefixes of the indexed records in order of first occurrence, each
\* once, no more than there are userHashes keys; no prefix is ever queried twice
\* and after the run each has been queried once.
C5_PrefixDedup ==
    /\ AtIndexResult =>
          /\ prefixes = FirstOccurrences(PrefixesOfRecords)
          /\ \A p \in Range(prefixes) : Occurrences(prefixes, p) = 1
          /\ Len(prefixes) <= Cardinality(DOMAIN userHashes)
    /\ \A p \in Range(prefixes) : Occurrences(queried, p) <= 1
    /\ Finished => \A p \in Range(prefixes) : Occurrences(queried, p) = 1

\* C5 witness: two records with different hashes share a prefix, which was queried
\* once in a finished run.
C5_Witness ==
    /\ Finished
    /\ Len(prefixes) = 1
    /\ Cardinality(DOMAIN userHashes) = 2
    /\ Len(queried) = 1

\* the account names a machine
IsMachine(account) == account # <<>> /\ account[Len(account)] = "$"

\* C6: every loaded record with a hash of five or more characters and an account
\* that is no machine account has its account stored under its upper-cased hash, as
\* often as the record is listed, and the first five characters of that hash are in
\* the prefixes exactly once.
C6_NoFalseExclusion ==
    IndexBuilt =>
        \A i \in 1..Len(users) :
            Len(users[i].Hash) >= 5 /\ ~IsMachine(users[i].Account) =>
                LET hash == ToUpper(users[i].Hash)
                    same == { j \in 1..Len(users) :
                                /\ users[j].Account = users[i].Account
                                /\ ToUpper(users[j].Hash) = hash }
                IN  /\ hash \in DOMAIN userHashes
                    /\ Occurrences(userHashes[hash], users[i].Account) = Cardinality(same)
                    /\ Occurrences(prefixes, SubSeq(hash, 1, 5)) = 1

\* C6 witness: two accounts share a hash and both are stored under it.
C6_Witness ==
    /\ IndexBuilt
    /\ \E h \in DOMAIN userHashes : Cardinality(Range(userHashes[h])) = 2
    /\ Len(prefixes) = 1

\* a record the filter is to drop
Filtered(u) ==
    \/ IsMachine(u.Account)
    \/ \A k \in 1..Len(u.Hash) : u.Hash[k] \in {" ", "\t", "\r", "\n"}
    \/ Len(u.Hash) < 5

\* C7: every account stored in userHashes and every prefix comes from a record that
\* is not filtered (no machine account, hash not empty or blank, five characters or
\* more); no machine account is stored in userHashes or exposedUsers, and every
\* key of userHashes has five characters or more.
C7_Filtering ==
    /\ \A h \in DOMAIN userHashes :
          /\ Len(h) >= 5
          /\ \A a \in Range(userHashes[h]) :
                /\ ~IsMachine(a)
                /\ \E i \in 1..Len(users) :
                      /\ ~Filtered(users[i])
                      /\ users[i].Account = a
                      /\ ToUpper(users[i].Hash) = h
    /\ \A p \in Range(prefixes) :
          \E i \in 1..Len(users) : ~Filtered(users[i]) /\ PrefixOf(users[i]) = p
    /\ \A a \in DOMAIN exposedUsers : ~IsMachine(a)

\* C7 witness: a machine account and a short or empty hash were loaded, the hash of
\* the machine account was reported for another account, and the run has finished.
C7_Witness ==
    /\ Finished
    /\ \E i \in 1..Len(users), j \in 1..Len(users) :
          /\ IsMachine(users[i].Account)
          /\ ~IsMachine(users[j].Account)
          /\ users[i].Hash = users[j].Hash
          /\ IsExposed(exposedUsers, users[j].Account)

\* no resultWriter.Write call has failed
NoWriteFailed == \A i \in 1..Len(sinkCalls) : sinkCalls[i].ok

\* number of resultWriter.Write calls that returned nil
WritesOk == Cardinality({ i \in 1..Len(sinkCalls) : sinkCalls[i].ok })

\* C8 as stated: for the file-backed and for the no-op sink alike, when no write
\* has failed the counter equals the number of Findings emitted, the number of
\* exposed accounts and the count CheckFile returns.
C8_CounterMatchesFindings ==
    NoWriteFailed =>
        /\ count = Len(emitted)
        /\ count = Cardinality(DOMAIN exposedUsers)
        /\ Finished => count = exposedCount

\* C8 amended: the file-backed sink counts every write that returned nil, so that
\* when no write has failed its counter equals the number of Findings, of exposed
\* accounts and the count CheckFile returns; the no-op sink returns nil for every
\* write and its counter stays 0.
C8_FileSinkCounts ==
    /\ enabled =>
          /\ count = WritesOk
          /\ NoWriteFailed =>
                /\ count = Len(emitted)
                /\ count = Cardinality(DOMAIN exposedUsers)
                /\ Finished => count = exposedCount
    /\ ~enabled => count = 0 /\ NoWriteFailed

\* C8 witness: a finished run with an output file wrote two accounts.
C8_Witness ==
    /\ Finished
    /\ enabled
    /\ NoWriteFailed
    /\ count = 2
    /\ exposedCount = 2

\* the prefixes whose query failed
FailedPrefixes == { p \in DOMAIN responses : ~responses[p].ok }

\* the accounts in the calls of resultWriter.Write
SinkAccounts == { sinkCalls[i].account : i \in 1..Len(sinkCalls) }

\* the record is indexed and a successful response reports its hash
Exposes(u) == ~Skipped(u) /\ Reported(u)

\* a worker has come back from a failed query and not yet counted the prefix
JustFailed == \E w \in Workers : wpc[w] = "add" /\ wprefix[w] \in FailedPrefixes

\* C9: a failed query is logged once and not repeated; accounts are exposed, emitted
\* and passed to the sink only for hashes a successful response reports; when a
\* query has just failed userHashes is as built; and CheckFile ends without error,
\* every prefix queried once, the exposed accounts and the count being those of the
\* successful responses.
C9_FailedPrefixSkipped ==
    /\ \A p \in Range(queried) : Occurrences(queried, p) <= 1
    /\ \A p \in FailedPrefixes :
          Occurrences(errLog, [kind |-> "query", what |-> p]) = 1
    /\ \A a \in DOMAIN exposedUsers \cup Range(emitted) \cup SinkAccounts :
          \E i \in 1..Len(users) : users[i].Account = a /\ Exposes(users[i])
    /\ JustFailed => userHashes = buildHashIndex(users).userHashes
    /\ pc \in {"returned", "exit"} /\ source.ok =>
          /\ ~retErr
          /\ Range(queried) = Range(prefixes)
          /\ DOMAIN exposedUsers = ExpectedExposed
          /\ exposedCount = Cardinality(ExpectedExposed)

\* C9 witness: of two prefixes one failed and the other exposed an account.
C9_Witness ==
    /\ Finished
    /\ Len(prefixes) = 2
    /\ Cardinality(FailedPrefixes) = 1
    /\ exposedCount >= 1

C11_InputErrorAborts ==
    /\ ~source.ok =>
          /\ pc \in {"load", "returned", "exit"}
          /\ pc # "load" => retErr /\ exposedCount = 0
          /\ users = <<>>
          /\ userHashes = <<>> /\ prefixes = <<>>
          /\ Workers = {} /\ jobs = <<>> /\ sent = 0
          /\ queried = <<>> /\ responses = <<>>
          /\ exposedUsers = <<>> /\ emitted = <<>>
          /\ sinkCalls = <<>> /\ count = 0 /\ buf = <<>> /\ file = <<>>
    /\ retErr => ~source.ok

\* C11 witness: the run is over after a failure to read the input file.
C11_Witness ==
    /\ ~source.ok
    /\ pc = "exit"
    /\ retErr
    /\ exposedCount = 0

\* queryPrefixesConcurrently has started its workers
PoolStarted == pc \in {"send", "wait"} \/ (pc \in {"count", "returned", "exit"} /\ Workers # {})

\* the workers inside c.client.QueryRangeRaw
InFlight == { w \in Workers : wpc[w] = "query" }

\* the workers inside the body of the loop over jobs
Busy == { w \in Workers : wpc[w] \notin {"recv", "done"} }

\* max(1, n)
AtLeastOne(n) == IF n < 1 THEN 1 ELSE n

\* C12: the pool starts max(1, workers) workers, whatever the worker count given;
\* at most that many range queries are in flight in any state, the prefixes taken
\* from the queue and not yet counted as completed are one per busy worker, and no
\* two workers hold the same prefix.
C12_BoundedConcurrency ==
    /\ [](/\ Cardinality(InFlight) <= AtLeastOne(workers)
          /\ PoolStarted =>
                /\ workers >= 1
                /\ Workers = 1..workers
                /\ Cardinality(Busy) <= workers
                /\ (sent - Len(jobs)) - completed = Cardinality({ w \in Busy : wpc[w] # "print" })
                /\ \A w1 \in Busy, w2 \in Busy : w1 # w2 => wprefix[w1] # wprefix[w2]
          /\ ~PoolStarted => Workers = {})
    /\ [][pc = "pool" => Cardinality(DOMAIN wpc') = AtLeastOne(workers)]_vars

\* C12 witness: as many range queries are in flight as there are workers, more than one.
C12_Witness ==
    /\ PoolStarted
    /\ workers = MaxWorkers
    /\ Cardinality(InFlight) = workers

\* s is an initial part of t
IsPrefix(s, t) == Len(s) <= Len(t) /\ SubSeq(t, 1, Len(s)) = s

\* the accounts whose resultWriter.Write call returned nil, in call order
WrittenAccounts ==
    LET oks == SelectSeq(sinkCalls, LAMBDA c : c.ok)
    IN  [i \in 1..Len(oks) |-> oks[i].account]

\* the accounts, each followed by a line feed, one after the other
RECURSIVE WholeLines(_)
WholeLines(as) ==
    IF as = <<>> THEN <<>> ELSE Head(as) \o <<"\n">> \o WholeLines(Tail(as))

\* the bytes the writer of the Result Sink has taken, in order: those it has
\* written to the file and those it still holds
Stream == file \o buf

\* C13: the Write calls are made in the order in which the accounts are marked
\* exposed, one per account marked; the bytes taken by the file sink's writer are the
\* whole lines of the calls that returned nil, in call order, followed by nothing
\* but an initial part of the line of the call that failed, if one did; the file is
\* an initial part of these bytes, and all of them when the run has ended with no
\* write error; calls, stream and file only grow at their end; the no-op sink
\* takes no bytes.
C13_SerializedWrites ==
    /\ [](/\ [i \in 1..Len(sinkCalls) |-> sinkCalls[i].account] = emitted
          /\ enabled =>
                /\ IsPrefix(WholeLines(WrittenAccounts), Stream)
                /\ NoWriteFailed /\ ~bufErr => Stream = WholeLines(WrittenAccounts)
                /\ \A i \in 1..Len(sinkCalls) :
                      ~sinkCalls[i].ok /\ (\A j \in 1..(i - 1) : sinkCalls[j].ok) =>
                          IsPrefix(Stream,
                                   WholeLines(Append(WrittenAccounts, sinkCalls[i].account)))
                /\ pc = "exit" /\ ~bufErr => file = WholeLines(WrittenAccounts)
          /\ ~enabled => Stream = <<>>)
    /\ [][/\ IsPrefix(sinkCalls, sinkCalls')
          /\ IsPrefix(file, file')
          /\ IsPrefix(Stream, Stream')]_vars

\* C13 witness: two workers each had an account written, for different prefixes,
\* and the file holds both lines in the order of marking.
C13_Witness ==
    /\ pc = "exit"
    /\ enabled
    /\ workers = 2
    /\ Len(queried) = 2
    /\ Len(WrittenAccounts) = 2
    /\ file = WholeLines(emitted)

\* C14: every completed prefix attempt is counted and reported once, the values
\* obtained from the counter are distinct values of 1..total and reach total when
\* the pool returns, and in the order of emission every report carries a larger
\* count than the report before it.
C14_ProgressMonotone ==
    /\ completed <= Len(prefixes)
    /\ \A i \in 1..Len(progress) : progress[i] \in 1..completed
    /\ \A i \in 1..Len(progress), j \in 1..Len(progress) :
          i # j => progress[i] # progress[j]
    /\ \A w \in Workers : wpc[w] = "print" =>
          wcurrent[w] \in 1..completed /\ wcurrent[w] \notin Range(progress)
    /\ pc \in {"count", "returned", "exit"} /\ ~retErr =>
          completed = Len(prefixes) /\ Range(progress) = 1..Len(prefixes)
    /\ \A i \in 1..(Len(progress) - 1) : progress[i] < progress[i + 1]

\* the worker is between its lookup of a hash and the unlock that follows
Marking(w) == wpc[w] \in {"lock", "check", "mark", "unlock"}

\* s is a final part of t
IsSuffix(s, t) == Len(s) <= Len(t) /\ SubSeq(t, Len(t) - Len(s) + 1, Len(t)) = s

\* C15: userHashes and the prefixes are empty until buildHashIndex has run, no
\* worker exists before that, and no step after it changes either of them; a
\* worker that has found a hash holds, until its unlock, the accounts userHashes
\* has under that hash at the time, all of them when it takes the write lock.
C15_IndexFrozen ==
    /\ [](/\ pc \in {"load", "index"} =>
                userHashes = <<>> /\ prefixes = <<>> /\ Workers = {}
          /\ pc = "pool" =>
                LET built == buildHashIndex(users)
                IN  userHashes = built.userHashes /\ prefixes = built.prefixes
          /\ \A w \in Workers :
                Marking(w) =>
                    LET fullHash == FullHash(wprefix[w], Head(wlines[w]))
                    IN  /\ fullHash \in DOMAIN userHashes
                        /\ IsSuffix(waccounts[w], userHashes[fullHash])
                        /\ wpc[w] = "lock" => waccounts[w] = userHashes[fullHash])
    /\ [][pc # "index" => UNCHANGED <<userHashes, prefixes>>]_vars

\* C15 witness: a worker that has found a hash waits for the write lock with the
\* accounts of that hash while another worker, inside the lock, marks an account.
C15_Witness ==
    \E w1 \in Workers, w2 \in Workers :
        /\ w1 # w2
        /\ wpc[w1] = "lock"
        /\ waccounts[w1] # <<>>
        /\ wpc[w2] = "mark"

\* C16: exposedUsers is empty until the workers run, every key it holds maps to
\* true, no step removes or unsets a key, and the count CheckFile returns without
\* error is the number of keys when every worker has finished.
C16_ExposureGrows ==
    /\ [](/\ pc \in {"load", "index", "pool"} => exposedUsers = <<>>
          /\ \A a \in DOMAIN exposedUsers : exposedUsers[a] = TRUE
          /\ Finished =>
                /\ \A w \in Workers : wpc[w] = "done"
                /\ exposedCount = Cardinality(DOMAIN exposedUsers))
    /\ [][\A a \in DOMAIN exposedUsers : IsExposed(exposedUsers', a)]_vars

\* C16 witness: the set grew by one account for each of two prefixes and CheckFile
\* has returned its size.
C16_Witness ==
    /\ pc = "returned"
    /\ ~retErr
    /\ Len(queried) = 2
    /\ Cardinality(DOMAIN exposedUsers) = 2
    /\ exposedCount = 2

\* number of jobs the workers have received
Taken == sent - Len(jobs)

\* the prefix is among the first n of prefixes
AmongFirst(n, p) == \E k \in 1..n : prefixes[k] = p

\* C17: the queue always holds the prefixes sent and not yet taken, in the order of
\* prefixes; a receive hands the worker the prefix sent first among them; so every
\* prefix a worker holds or has queried is among the first Taken of prefixes, all
\* prefixes ahead of it having been taken.
C17_FifoDispatch ==
    /\ [](/\ sent <= Len(prefixes)
          /\ jobs = SubSeq(prefixes, Taken + 1, sent)
          /\ \A w \in Busy : AmongFirst(Taken, wprefix[w])
          /\ \A i \in 1..Len(queried) : AmongFirst(Taken, queried[i]))
    /\ [][\A w \in DOMAIN wpc :
              wpc[w] = "recv" /\ wpc'[w] = "query" =>
                  /\ wprefix'[w] = prefixes[Taken + 1]
                  /\ jobs' = Tail(jobs)]_vars

\* C17 witness: the prefix sent second has been queried, the prefix sent first was
\* taken before it and its query is still in flight.
C17_Witness ==
    /\ Len(prefixes) = 2
    /\ queried = <<prefixes[2]>>
    /\ \E w \in Workers : wpc[w] = "query" /\ wprefix[w] = prefixes[1]

\* C18: the run never deadlocks and always terminates: in every state before the
\* exit some step can be taken; a send never finds the queue full; a worker that
\* finds the queue closed and empty can leave; the holder of the exposure lock is
\* never waiting; every sink write (which takes the sink lock) is made by the holder
\* of the exposure lock, who keeps it; and RunE returns in the end.
C18_Terminates ==
    /\ [](/\ pc # "exit" => ENABLED Next
          /\ Len(jobs) <= Len(prefixes)
          /\ pc = "send" /\ sent < Len(prefixes) => Len(jobs) < Len(prefixes)
          /\ cacheMu # 0 =>
                cacheMu \in Workers /\ wpc[cacheMu] \in {"check", "mark", "unlock"}
          /\ pc \in {"count", "returned", "exit"} => cacheMu = 0)
    /\ [][sinkCalls' # sinkCalls => cacheMu \in Workers /\ cacheMu' = cacheMu]_vars
    /\ <>(pc = "exit")

\* C18 witness: a run with more workers than prefixes has ended, the idle worker
\* having left.
C18_Witness ==
    /\ pc = "exit"
    /\ workers = 2
    /\ Len(prefixes) = 1
    /\ \A w \in Workers : wpc[w] = "done"

\* C19: the outcome of a finished run is a function of the records and of what
\* each prefix was answered, whatever the worker count and the interleaving: the
\* exposed accounts, the accounts emitted and the accounts passed to the Result
\* Sink are the accounts the responses expose, the count returned is their number,
\* and after a run with an output file and no write error the lines of the file
\* are these accounts, each once.
C19_ScheduleIndependent ==
    Finished =>
        /\ DOMAIN exposedUsers = ExpectedExposed
        /\ Range(emitted) = ExpectedExposed
        /\ SinkAccounts = ExpectedExposed
        /\ exposedCount = Cardinality(ExpectedExposed)
        /\ Len(sinkCalls) = Cardinality(ExpectedExposed)
        /\ pc = "exit" /\ enabled /\ NoWriteFailed /\ ~bufErr =>
              /\ FileLines = ExpectedExposed
              /\ Len(file) = Len(WholeLines(emitted))

\* C19 witness: two workers have exposed two accounts in the order opposite to that
\* of their prefixes, the account of the second prefix first, and the file holds
\* both.
C19_Witness ==
    /\ pc = "exit"
    /\ ~retErr
    /\ enabled
    /\ workers = 2
    /\ Len(prefixes) = 2
    /\ Len(emitted) = 2
    /\ \A i \in 1..Len(users) :
          users[i].Account = emitted[1] => PrefixOf(users[i]) = prefixes[2]
    /\ FileLines = Range(emitted)

====
